---- MODULE Spec2Model ----
(***************************************************************************)
(* Model of ollama_proxy.py: a FastAPI proxy translating an OpenAI-style   *)
(* chat route and an Ollama-style generate route onto one LM Studio        *)
(* completions endpoint.                                                   *)
(*                                                                         *)
(* Texts (Python str) are sequences of one-character strings, so that      *)
(* strip(), upper(), re.sub() and f-string concatenation are computed      *)
(* character by character.  JSON objects are functions from their keys.    *)
(***************************************************************************)
EXTENDS Integers, Sequences, FiniteSets, TLC

VARIABLES
    pc,             \* position of the request handler
    req,            \* the validated downstream request (ChatRequest / OllamaRequest)
    payload,        \* lm_studio_payload posted to LM_STUDIO_API
    upstreamCalls,  \* HTTP calls issued to LM_STUDIO_API for this request
    upstream,       \* what the upstream call came to (NoUpstream until it is known)
    upstreamChunks, \* chunks response.aiter_text() has produced so far
    out,            \* chunks the generator has yielded downstream
    status,         \* downstream HTTP status (0: not committed yet)
    body,           \* downstream JSON body or HTTPException detail
    raised,         \* TRUE when stream_chat_response raised to its consumer
    cpc, cx, cy, cz,    \* clean_lm_response: position, input, one pass, two passes
    ppc, msgs, prompt   \* convert_messages_to_prompt: position, input, output

handlerVars == <<pc, req, payload, upstreamCalls, upstream, upstreamChunks,
                 out, status, body, raised>>
cleanVars == <<cpc, cx, cy, cz>>
promptVars == <<ppc, msgs, prompt>>
vars == <<handlerVars, cleanVars, promptVars>>

(***************************************************************************)
(* Bounds                                                                  *)
(***************************************************************************)
MaxPieces == 3      \* pieces concatenated into an input of clean_lm_response
MaxMsgs == 2        \* messages of a chat request
MaxFrags == 2       \* fragments of a structured message content
MaxChoices == 2     \* choices of an upstream reply
MaxChunks == 2      \* chunks of an upstream stream

(***************************************************************************)
(* Python str primitives                                                   *)
(***************************************************************************)
UpperLetters ==
    <<"A","B","C","D","E","F","G","H","I","J","K","L","M",
      "N","O","P","Q","R","S","T","U","V","W","X","Y","Z">>
LowerLetters ==
    <<"a","b","c","d","e","f","g","h","i","j","k","l","m",
      "n","o","p","q","r","s","t","u","v","w","x","y","z">>

Lower(c) ==
    IF \E i \in 1..Len(UpperLetters) : UpperLetters[i] = c
    THEN LowerLetters[CHOOSE i \in 1..Len(UpperLetters) : UpperLetters[i] = c]
    ELSE c

Upper(c) ==
    IF \E i \in 1..Len(LowerLetters) : LowerLetters[i] = c
    THEN UpperLetters[CHOOSE i \in 1..Len(LowerLetters) : LowerLetters[i] = c]
    ELSE c

\* str.upper()
upper(s) == [i \in 1..Len(s) |-> Upper(s[i])]

\* whitespace of str.strip() and of the regex class \s
IsSpace(c) == c \in {" ", "\n", "\t", "\r"}

\* the suffix of s that starts at index i
From(s, i) == SubSeq(s, i, Len(s))

\* the first index at or after i that does not hold whitespace (Len(s)+1 if none)
SkipSpace(s, i) ==
    IF \E j \in i..Len(s) : ~IsSpace(s[j])
    THEN CHOOSE j \in i..Len(s) : ~IsSpace(s[j]) /\ \A k \in i..(j-1) : IsSpace(s[k])
    ELSE Len(s) + 1

\* str.strip()
strip(s) ==
    IF \A j \in 1..Len(s) : IsSpace(s[j])
    THEN <<>>
    ELSE LET a == SkipSpace(s, 1)
             b == CHOOSE j \in 1..Len(s) :
                      ~IsSpace(s[j]) /\ \A k \in (j+1)..Len(s) : IsSpace(s[k])
         IN  SubSeq(s, a, b)

\* the literal pat matches s at index i, ignoring case (re.IGNORECASE)
MatchAt(s, i, pat) ==
    /\ i + Len(pat) - 1 <= Len(s)
    /\ \A k \in 1..Len(pat) : Lower(s[i + k - 1]) = Lower(pat[k])

(***************************************************************************)
(* clean_lm_response                                                       *)
(***************************************************************************)
\* '<\|im_start\|>Assistant###'
Marker ==
    <<"<","|","i","m","_","s","t","a","r","t","|",">",
      "A","s","s","i","s","t","a","n","t","#","#","#">>

LabelHashes == <<"A","S","S","I","S","T","A","N","T","#","#","#">>
LabelColon == <<"A","S","S","I","S","T","A","N","T",":">>
ImStart == <<"i","m","_","s","t","a","r","t">>

\* The alternatives of '(ASSISTANT###|ASSISTANT:|<|im_start|>)', in order:
\* the unescaped '|' makes '<', 'im_start' and '>' alternatives of their own.
PrefixAlternatives == <<LabelHashes, LabelColon, <<"<">>, ImStart, <<">">> >>

\* re.sub(r'<\|im_start\|>Assistant###\s*', '', text, flags=re.IGNORECASE):
\* every non-overlapping match, scanning from the left, is deleted.
RECURSIVE SubMarkerFrom(_, _)
SubMarkerFrom(s, i) ==
    IF i > Len(s) THEN <<>>
    ELSE IF MatchAt(s, i, Marker)
         THEN SubMarkerFrom(s, SkipSpace(s, i + Len(Marker)))
         ELSE <<s[i]>> \o SubMarkerFrom(s, i + 1)

SubMarker(s) == SubMarkerFrom(s, 1)

\* the index after the greedy repetition '( ... )+' started at index i
RECURSIVE PrefixEnd(_, _)
PrefixEnd(s, i) ==
    IF \E a \in 1..Len(PrefixAlternatives) : MatchAt(s, i, PrefixAlternatives[a])
    THEN LET a == CHOOSE n \in 1..Len(PrefixAlternatives) :
                      /\ MatchAt(s, i, PrefixAlternatives[n])
                      /\ \A m \in 1..(n-1) : ~MatchAt(s, i, PrefixAlternatives[m])
         IN  PrefixEnd(s, i + Len(PrefixAlternatives[a]))
    ELSE i

\* re.sub(r'^(ASSISTANT###|ASSISTANT:|<|im_start|>)+\s*', '', text, flags=re.IGNORECASE)
SubPrefix(s) ==
    LET e == PrefixEnd(s, 1)
    IN  IF e = 1 THEN s ELSE From(s, SkipSpace(s, e))

clean_lm_response(text) == SubPrefix(SubMarker(strip(text)))

(***************************************************************************)
(* convert_messages_to_prompt                                              *)
(*                                                                         *)
(* A message is a JSON object: a function from a subset of                 *)
(* {"role", "content"}.  A content is [kind |-> "str", val |-> text] or    *)
(* [kind |-> "list", val |-> items]; an item is                            *)
(* [kind |-> "dict", obj |-> JSON object] or [kind |-> "str", val |-> text]*)
(* (an item that is not a dict).                                           *)
(***************************************************************************)
Colon == <<":", " ">>
NL == <<"\n">>
DefaultRole == <<"u","s","e","r">>

\* sep.join(texts)
RECURSIVE join(_, _)
join(sep, texts) ==
    IF Len(texts) = 0 THEN <<>>
    ELSE IF Len(texts) = 1 THEN texts[1]
    ELSE texts[1] \o sep \o join(sep, Tail(texts))

\* FragmentTexts with the filter lost: an item without a text field counts as an empty text
RECURSIVE FragmentTextsUnfiltered(_)
FragmentTextsUnfiltered(items) ==
    IF items = <<>> THEN <<>>
    ELSE LET item == Head(items)
         IN  IF item.kind = "dict" /\ "text" \in DOMAIN item.obj
             THEN <<item.obj["text"]>> \o FragmentTextsUnfiltered(Tail(items))
             ELSE << <<>> >> \o FragmentTextsUnfiltered(Tail(items))

\* [item["text"] for item in content if isinstance(item, dict) and "text" in item]
RECURSIVE FragmentTexts(_)
FragmentTexts(items) ==
    IF items = <<>> THEN <<>>
    ELSE LET item == Head(items)
         IN  IF item.kind = "dict" /\ "text" \in DOMAIN item.obj
             THEN <<item.obj["text"]>> \o FragmentTexts(Tail(items))
             ELSE FragmentTexts(Tail(items))

\* role = msg.get("role", "user")
MsgRole(msg) == IF "role" \in DOMAIN msg THEN msg["role"] ELSE DefaultRole

\* content = msg.get("content", ""), a list content replaced by its joined texts
MsgContent(msg) ==
    IF "content" \notin DOMAIN msg THEN <<>>
    ELSE IF msg["content"].kind = "list"
         THEN join(NL, FragmentTexts(msg["content"].val))
         ELSE msg["content"].val

\* the loop body: prompt += f"{role.upper()}: {content}\n"
RECURSIVE PromptLoop(_, _)
PromptLoop(messages, acc) ==
    IF messages = <<>> THEN acc
    ELSE LET msg == Head(messages)
         IN  PromptLoop(Tail(messages),
                        acc \o upper(MsgRole(msg)) \o Colon \o MsgContent(msg) \o NL)

convert_messages_to_prompt(messages) == strip(PromptLoop(messages, <<>>))

(***************************************************************************)
(* The upstream call: httpx.AsyncClient.post / .stream on LM_STUDIO_API    *)
(*                                                                         *)
(* What the call comes to is a record                                      *)
(*   kind        "response" (a response arrived), "timeout"                *)
(*               (httpx.TimeoutException) or "transport" (any other        *)
(*               httpx.RequestError)                                       *)
(*   status_code the response's status                                     *)
(*   text        the response's body text                                  *)
(*   read        whether the body has been read: client.post reads it,     *)
(*               client.stream leaves it unread                            *)
(*   str         str(e) of a transport error                               *)
(*   json        response.json()                                           *)
(***************************************************************************)
\* response.raise_for_status() raises httpx.HTTPStatusError
RaisesForStatus(status_code) == status_code \notin 200..299

\* str(n) of a status code
RECURSIVE Decimal(_)
Decimal(n) ==
    LET digit == <<"0","1","2","3","4","5","6","7","8","9">>[(n % 10) + 1]
    IN  IF n < 10 THEN <<digit>> ELSE Decimal(n \div 10) \o <<digit>>

\* dict.get(key, default)
DictGet(d, key, default) == IF key \in DOMAIN d THEN d[key] ELSE default

HTTPException(status_code, detail) ==
    [status |-> status_code, body |-> [kind |-> "error", detail |-> detail]]

\* an exception no handler catches: the server answers 500 Internal Server Error
Unhandled(type) ==
    [status |-> 500,
     body |-> [kind |-> "unhandled", type |-> type,
               detail |-> <<"I","n","t","e","r","n","a","l"," ",
                            "S","e","r","v","e","r"," ","E","r","r","o","r">>]]

LMStudioError == <<"L","M"," ","S","t","u","d","i","o"," ","e","r","r","o","r",":"," ">>
TimedOut ==
    <<"L","M"," ","S","t","u","d","i","o"," ","r","e","q","u","e","s","t"," ",
      "t","i","m","e","d"," ","o","u","t">>
RequestErrorPrefix == <<"R","e","q","u","e","s","t"," ","e","r","r","o","r",":"," ">>
ErrorPrefix == <<"E","R","R","O","R",":"," ">>
Returned == <<"L","M"," ","S","t","u","d","i","o"," ","r","e","t","u","r","n","e","d"," ">>
RequestFailed == <<"R","e","q","u","e","s","t"," ","f","a","i","l","e","d",":"," ">>

\* the exception the call raises: HTTPStatusError comes from raise_for_status;
\* TimeoutException is a subclass of RequestError, HTTPStatusError is not
IsHTTPStatusError(u) == u.kind = "response" /\ RaisesForStatus(u.status_code)
IsTimeoutException(u) == u.kind = "timeout"
IsRequestError(u) == u.kind \in {"timeout", "transport"}
Fails(u) == IsHTTPStatusError(u) \/ IsRequestError(u)

(***************************************************************************)
(* chat_completions                                                        *)
(***************************************************************************)
MODEL_MAP == [m \in {"qwen2.5"} |-> "qwen2.5-coder-32b-instruct-mlx"]

\* model_name = MODEL_MAP.get(request.model, request.model)
ChatModelName(request) == DictGet(MODEL_MAP, request.model, request.model)

\* lm_studio_payload of chat_completions
ChatPayload(request) ==
    [model |-> ChatModelName(request),
     prompt |-> convert_messages_to_prompt(request.messages),
     temperature |-> request.temperature,
     max_tokens |-> request.max_tokens,
     stream |-> request.stream]

\* ChatFailure with the RequestError clause ahead of the TimeoutException clause
ChatFailureTimeoutLast(u) ==
    IF IsHTTPStatusError(u)
    THEN IF u.read
         THEN HTTPException(u.status_code, LMStudioError \o u.text)
         ELSE Unhandled("ResponseNotRead")
    ELSE IF IsRequestError(u)
    THEN HTTPException(500, RequestErrorPrefix \o u.str)
    ELSE HTTPException(504, TimedOut)

\* the except clauses of chat_completions, in their order
ChatFailure(u) ==
    IF IsHTTPStatusError(u)
    THEN IF u.read
         THEN HTTPException(u.status_code, LMStudioError \o u.text)
         ELSE Unhandled("ResponseNotRead")
    ELSE IF IsTimeoutException(u)
    THEN HTTPException(504, TimedOut)
    ELSE HTTPException(500, RequestErrorPrefix \o u.str)

\* one element of the list comprehension over lm_response["choices"]
ChatChoice(choice) ==
    [index |-> choice["index"],
     message |-> [role |-> "assistant", content |-> clean_lm_response(choice["text"])],
     finish_reason |-> choice["finish_reason"]]

ChoiceKeys == {"index", "text", "finish_reason"}

\* ChatResponse with usage read by lm_response.get("usage", {})
ChatResponseDefaultUsage(model_name, lm_response) ==
    IF "id" \notin DOMAIN lm_response THEN Unhandled("KeyError")
    ELSE IF "created" \notin DOMAIN lm_response THEN Unhandled("KeyError")
    ELSE IF "choices" \notin DOMAIN lm_response THEN Unhandled("KeyError")
    ELSE IF \E i \in 1..Len(lm_response["choices"]) :
                ~(ChoiceKeys \subseteq DOMAIN lm_response["choices"][i])
    THEN Unhandled("KeyError")
    ELSE [status |-> 200,
          body |-> [kind |-> "json",
                    obj |-> [id |-> lm_response["id"],
                             object |-> "chat.completion",
                             created |-> lm_response["created"],
                             model |-> model_name,
                             choices |-> [i \in 1..Len(lm_response["choices"]) |->
                                             ChatChoice(lm_response["choices"][i])],
                             usage |-> DictGet(lm_response, "usage", <<>>)]]]

\* openai_response: every lm_response[...] and choice[...] raises KeyError
\* when the key is absent
ChatResponse(model_name, lm_response) ==
    IF "id" \notin DOMAIN lm_response THEN Unhandled("KeyError")
    ELSE IF "created" \notin DOMAIN lm_response THEN Unhandled("KeyError")
    ELSE IF "choices" \notin DOMAIN lm_response THEN Unhandled("KeyError")
    ELSE IF \E i \in 1..Len(lm_response["choices"]) :
                ~(ChoiceKeys \subseteq DOMAIN lm_response["choices"][i])
    THEN Unhandled("KeyError")
    ELSE IF "usage" \notin DOMAIN lm_response THEN Unhandled("KeyError")
    ELSE [status |-> 200,
          body |-> [kind |-> "json",
                    obj |-> [id |-> lm_response["id"],
                             object |-> "chat.completion",
                             created |-> lm_response["created"],
                             model |-> model_name,
                             choices |-> [i \in 1..Len(lm_response["choices"]) |->
                                             ChatChoice(lm_response["choices"][i])],
                             usage |-> lm_response["usage"]]]]

(***************************************************************************)
(* generate_ollama                                                         *)
(***************************************************************************)
\* GenerateModelName with the alias table applied
GenerateModelNameAliased(request) == DictGet(MODEL_MAP, request.model, request.model)

\* model_name = request.model
GenerateModelName(request) == request.model

\* lm_studio_payload of generate_ollama
GeneratePayload(request) ==
    [model |-> GenerateModelName(request),
     prompt |-> request.prompt,
     temperature |-> request.temperature,
     max_tokens |-> request.max_tokens,
     stream |-> request.stream]

\* the except clauses of generate_ollama, in their order
GenerateFailure(u) ==
    IF IsHTTPStatusError(u)
    THEN IF u.read
         THEN HTTPException(u.status_code, LMStudioError \o u.text)
         ELSE Unhandled("ResponseNotRead")
    ELSE IF IsTimeoutException(u)
    THEN HTTPException(504, TimedOut)
    ELSE HTTPException(500, RequestErrorPrefix \o u.str)

\* ollama_response: lm_response.get("choices", [{}])[0] raises IndexError on
\* an empty list
GenerateResponse(model_name, lm_response) ==
    LET choices == DictGet(lm_response, "choices", << <<>> >>)
    IN  IF Len(choices) = 0 THEN Unhandled("IndexError")
        ELSE [status |-> 200,
              body |-> [kind |-> "json",
                        obj |-> [model |-> model_name,
                                 created_at |-> DictGet(lm_response, "created", ""),
                                 response |-> DictGet(choices[1], "text", <<>>),
                                 done |-> TRUE]]]

(***************************************************************************)
(* stream_chat_response                                                    *)
(***************************************************************************)
\* Relay with the Response Cleaner applied to the chunk
RelayCleaned(chunk) == clean_lm_response(chunk)

\* yield chunk
Relay(chunk) == chunk

\* The except clauses of stream_chat_response, in their order: the chunk the
\* generator yields, or the exception it raises.  e.response is the response
\* of client.stream, whose body nobody read, so e.response.text raises
\* httpx.ResponseNotRead, which none of the clauses catches.
StreamFailure(u) ==
    IF IsHTTPStatusError(u)
    THEN IF u.read
         THEN [raises |-> FALSE,
               chunk |-> ErrorPrefix \o Returned \o Decimal(u.status_code)
                         \o Colon \o u.text]
         ELSE [raises |-> TRUE, chunk |-> <<>>]
    ELSE IF IsTimeoutException(u)
    THEN [raises |-> FALSE, chunk |-> ErrorPrefix \o TimedOut]
    ELSE [raises |-> FALSE, chunk |-> ErrorPrefix \o RequestFailed \o u.str]

(***************************************************************************)
(* Inputs                                                                  *)
(***************************************************************************)
\* all sequences over S of length at most n
SeqsUpTo(S, n) == UNION {[1..k -> S] : k \in 0..n}

RECURSIVE Flatten(_)
Flatten(ss) == IF ss = <<>> THEN <<>> ELSE Head(ss) \o Flatten(Tail(ss))

\* pieces of raw upstream text
CleanPieces ==
    { <<" ">>, <<"h","i">>, <<"<">>, <<">">>, <<"b">>,
      Marker,
      <<"A","S","S","I","S","T","A","N","T",":">>,
      <<"a","s","s","i","s","t","a","n","t","#","#","#">>,
      <<"i","m","_","s","t","a","r","t">>,
      <<"<","|","i","m","_">>,
      <<"s","t","a","r","t","|",">","A","s","s","i","s","t","a","n","t","#","#","#">> }

CleanInputs == {Flatten(ps) : ps \in SeqsUpTo(CleanPieces, MaxPieces)}

Roles == { <<" ","B","o","t">> }
StrContents == { <<"h","i">>, <<"a","\n">> }
Items ==
    { [kind |-> "dict", obj |-> [text |-> <<"a">>]],
      [kind |-> "dict", obj |-> [other |-> <<"x">>]],
      [kind |-> "str", val |-> <<"s">>] }
Contents ==
    {[kind |-> "str", val |-> t] : t \in StrContents}
    \cup {[kind |-> "list", val |-> l] : l \in SeqsUpTo(Items, MaxFrags)}
Messages ==
    {[role |-> r, content |-> c] : r \in Roles, c \in Contents}
    \cup {[content |-> c] : c \in Contents}
    \cup {[role |-> r] : r \in Roles}
MessageLists == SeqsUpTo(Messages, MaxMsgs)

\* requests, as the pydantic models ChatRequest and OllamaRequest admit them
ModelNames == {"qwen2.5", "llama3"}
Prompts == { <<"h","i">>, <<" ","a">> }
ChatMessageLists ==
    { << [role |-> <<"u","s","e","r">>, content |-> [kind |-> "str", val |-> <<"h","i">>]] >>,
      << [content |-> [kind |-> "list",
                       val |-> << [kind |-> "dict", obj |-> [text |-> <<"a">>]],
                                  [kind |-> "dict", obj |-> [other |-> <<"x">>]] >>]],
         [role |-> <<" ","B","o","t">>, content |-> [kind |-> "str", val |-> <<"a","\n">>]] >> }
ChatRequests ==
    [route : {"chat"}, model : ModelNames, messages : ChatMessageLists,
     stream : BOOLEAN, temperature : {"0.7"}, max_tokens : {512}]
GenerateRequests ==
    [route : {"generate"}, model : ModelNames, prompt : Prompts,
     stream : BOOLEAN, temperature : {"0.7"}, max_tokens : {512}]

\* what the upstream may answer
UpstreamStatuses == {200, 302, 404, 503}
UpstreamTexts == { <<"b","u","s","y">>, <<"n","o">> }
ErrorStrs == { <<"r","e","s","e","t">>, <<"d","n","s">> }
ReplyTexts == { <<" ","h","i">>, <<"A","S","S","I","S","T","A","N","T",":"," ","y","o">> }

Restrict(f, D) == [k \in D |-> f[k]]

ChoiceObjects ==
    {Restrict([index |-> 0, text |-> t, finish_reason |-> "stop"], D) :
        t \in ReplyTexts, D \in SUBSET ChoiceKeys}
ReplyKeys == {"id", "created", "choices", "usage"}
Replies ==
    {Restrict([id |-> "cmpl-1", created |-> "1700000000", choices |-> cs,
               usage |-> [total_tokens |-> 3]], D) :
        cs \in SeqsUpTo(ChoiceObjects, MaxChoices), D \in SUBSET ReplyKeys}

Response(status_code, text, read, json) ==
    [kind |-> "response", status_code |-> status_code, text |-> text,
     read |-> read, str |-> <<>>, json |-> json]
Timeout ==
    [kind |-> "timeout", status_code |-> 0, text |-> <<>>, read |-> FALSE,
     str |-> <<>>, json |-> <<>>]
TransportError(str) ==
    [kind |-> "transport", status_code |-> 0, text |-> <<>>, read |-> FALSE,
     str |-> str, json |-> <<>>]

\* client.post: the response comes with its body read
UnaryFailures ==
    {Response(s, t, TRUE, <<>>) : s \in {c \in UpstreamStatuses : RaisesForStatus(c)},
                                  t \in UpstreamTexts}
    \cup {Timeout}
    \cup {TransportError(d) : d \in ErrorStrs}
UnaryReplies ==
    {Response(s, <<>>, TRUE, j) : s \in {c \in UpstreamStatuses : ~RaisesForStatus(c)},
                                  j \in Replies}

\* client.stream: the response comes with its body unread
StreamHeads == {Response(s, t, FALSE, <<>>) : s \in UpstreamStatuses, t \in UpstreamTexts}
StreamErrors == {Timeout} \cup {TransportError(d) : d \in ErrorStrs}

(***************************************************************************)
(* The values the variables of the other specifications rest at            *)
(***************************************************************************)
NoRequest == [route |-> "none"]
NoPayload == [model |-> "none"]
NoBody == [kind |-> "none"]
NoUpstream == [kind |-> "none", status_code |-> 0, text |-> <<>>, read |-> FALSE, str |-> <<>>, json |-> <<>>]

HandlerIdle ==
    /\ pc = "idle"
    /\ req = NoRequest
    /\ payload = NoPayload
    /\ upstreamCalls = 0
    /\ upstream = NoUpstream
    /\ upstreamChunks = <<>>
    /\ out = <<>>
    /\ status = 0
    /\ body = NoBody
    /\ raised = FALSE

CleanIdle == cpc = "idle" /\ cx = <<>> /\ cy = <<>> /\ cz = <<>>
PromptIdle == ppc = "idle" /\ msgs = <<>> /\ prompt = <<>>

(***************************************************************************)
(* SpecClean: clean_lm_response applied to a text, then to its own result  *)
(***************************************************************************)
InitClean ==
    /\ HandlerIdle /\ PromptIdle
    /\ cpc = "start"
    /\ cx \in CleanInputs
    /\ cy = <<>>
    /\ cz = <<>>

CleanOnce ==
    /\ cpc = "start"
    /\ cy' = clean_lm_response(cx)
    /\ cpc' = "once"
    /\ UNCHANGED <<cx, cz, handlerVars, promptVars>>

CleanTwice ==
    /\ cpc = "once"
    /\ cz' = clean_lm_response(cy)
    /\ cpc' = "twice"
    /\ UNCHANGED <<cx, cy, handlerVars, promptVars>>

NextClean == CleanOnce \/ CleanTwice
SpecClean == InitClean /\ [][NextClean]_vars

(***************************************************************************)
(* SpecPrompt: convert_messages_to_prompt applied to a message list        *)
(***************************************************************************)
InitPrompt ==
    /\ HandlerIdle /\ CleanIdle
    /\ ppc = "start"
    /\ msgs \in MessageLists
    /\ prompt = <<>>

Convert ==
    /\ ppc = "start"
    /\ prompt' = convert_messages_to_prompt(msgs)
    /\ ppc' = "done"
    /\ UNCHANGED <<msgs, handlerVars, cleanVars>>

NextPrompt == Convert
SpecPrompt == InitPrompt /\ [][NextPrompt]_vars

(***************************************************************************)
(* Spec: one downstream request, from its arrival to its outcome           *)
(***************************************************************************)
Init == HandlerIdle /\ CleanIdle /\ PromptIdle

\* POST /v1/chat/completions up to the upstream call: the payload is built;
\* a streaming request gets its StreamingResponse (status 200) at once, a
\* non-streaming request awaits client.post
chat_completions(request) ==
    /\ pc = "idle"
    /\ req' = request
    /\ payload' = ChatPayload(request)
    /\ IF request.stream
       THEN pc' = "stream" /\ status' = 200 /\ UNCHANGED upstreamCalls
       ELSE pc' = "post" /\ upstreamCalls' = upstreamCalls + 1 /\ UNCHANGED status
    /\ UNCHANGED <<upstream, upstreamChunks, out, body, raised, cleanVars, promptVars>>

\* POST /api/generate up to the upstream call
generate_ollama(request) ==
    /\ pc = "idle"
    /\ req' = request
    /\ payload' = GeneratePayload(request)
    /\ IF request.stream
       THEN pc' = "stream" /\ status' = 200 /\ UNCHANGED upstreamCalls
       ELSE pc' = "post" /\ upstreamCalls' = upstreamCalls + 1 /\ UNCHANGED status
    /\ UNCHANGED <<upstream, upstreamChunks, out, body, raised, cleanVars, promptVars>>

\* the handler's outcome goes downstream
Answer(outcome) ==
    /\ status' = outcome.status
    /\ body' = outcome.body
    /\ pc' = "done"

\* ChatPostFails with a retry: the failed call is issued again
ChatPostRetries ==
    /\ pc = "post" /\ req.route = "chat"
    /\ upstreamCalls < 3
    /\ \E u \in UnaryFailures :
           /\ Fails(u)
           /\ upstream' = u
    /\ upstreamCalls' = upstreamCalls + 1
    /\ UNCHANGED <<pc, req, payload, upstreamChunks, out, status, body, raised,
                   cleanVars, promptVars>>

\* chat_completions: client.post or raise_for_status raises
ChatPostFails ==
    /\ pc = "post" /\ req.route = "chat"
    /\ \E u \in UnaryFailures :
           /\ Fails(u)
           /\ upstream' = u
           /\ Answer(ChatFailure(u))
    /\ UNCHANGED <<req, payload, upstreamCalls, upstreamChunks, out, raised,
                   cleanVars, promptVars>>

\* chat_completions: a 2xx reply is translated
ChatPostReplies ==
    /\ pc = "post" /\ req.route = "chat"
    /\ \E u \in UnaryReplies :
           /\ ~Fails(u)
           /\ upstream' = u
           /\ Answer(ChatResponse(payload.model, u.json))
    /\ UNCHANGED <<req, payload, upstreamCalls, upstreamChunks, out, raised,
                   cleanVars, promptVars>>

\* generate_ollama: client.post or raise_for_status raises
GeneratePostFails ==
    /\ pc = "post" /\ req.route = "generate"
    /\ \E u \in UnaryFailures :
           /\ Fails(u)
           /\ upstream' = u
           /\ Answer(GenerateFailure(u))
    /\ UNCHANGED <<req, payload, upstreamCalls, upstreamChunks, out, raised,
                   cleanVars, promptVars>>

\* generate_ollama: a 2xx reply is translated
GeneratePostReplies ==
    /\ pc = "post" /\ req.route = "generate"
    /\ \E u \in UnaryReplies :
           /\ ~Fails(u)
           /\ upstream' = u
           /\ Answer(GenerateResponse(payload.model, u.json))
    /\ UNCHANGED <<req, payload, upstreamCalls, upstreamChunks, out, raised,
                   cleanVars, promptVars>>

\* stream_chat_response: client.stream("POST", LM_STUDIO_API, json=request_data)
StreamOpen ==
    /\ pc = "stream"
    /\ upstreamCalls' = upstreamCalls + 1
    /\ pc' = "stream_sent"
    /\ UNCHANGED <<req, payload, upstream, upstreamChunks, out, status, body, raised,
                   cleanVars, promptVars>>

\* the generator's except clauses: one error chunk, or the exception goes on
\* to the consumer; either way the generator is over
StreamHandles(u) ==
    /\ upstream' = u
    /\ out' = IF StreamFailure(u).raises THEN out ELSE Append(out, StreamFailure(u).chunk)
    /\ raised' = StreamFailure(u).raises
    /\ pc' = "done"
    /\ UNCHANGED <<req, payload, upstreamCalls, upstreamChunks, status, body,
                   cleanVars, promptVars>>

\* the response head arrives with a non-2xx status: raise_for_status raises
StreamStatusFails(u) ==
    /\ pc = "stream_sent"
    /\ IsHTTPStatusError(u)
    /\ StreamHandles(u)

\* a timeout or another transport error, before the head or between chunks
StreamTransportFails(u) ==
    /\ pc \in {"stream_sent", "stream_body"}
    /\ StreamHandles(u)

\* the response head arrives with a 2xx status
StreamStarts(u) ==
    /\ pc = "stream_sent"
    /\ ~Fails(u)
    /\ upstream' = u
    /\ pc' = "stream_body"
    /\ UNCHANGED <<req, payload, upstreamCalls, upstreamChunks, out, status, body, raised,
                   cleanVars, promptVars>>

\* async for chunk in response.aiter_text(): yield chunk
StreamChunk(chunk) ==
    /\ pc = "stream_body"
    /\ Len(upstreamChunks) < MaxChunks
    /\ upstreamChunks' = Append(upstreamChunks, chunk)
    /\ out' = Append(out, Relay(chunk))
    /\ UNCHANGED <<pc, req, payload, upstreamCalls, upstream, status, body, raised,
                   cleanVars, promptVars>>

\* the upstream stream ends: the generator returns
StreamEnds ==
    /\ pc = "stream_body"
    /\ pc' = "done"
    /\ UNCHANGED <<req, payload, upstreamCalls, upstream, upstreamChunks, out, status,
                   body, raised, cleanVars, promptVars>>

Next ==
    \/ \E request \in ChatRequests : chat_completions(request)
    \/ \E request \in GenerateRequests : generate_ollama(request)
    \/ ChatPostFails
    \/ ChatPostReplies
    \/ GeneratePostFails
    \/ GeneratePostReplies
    \/ StreamOpen
    \/ \E u \in StreamHeads : StreamStatusFails(u)
    \/ \E u \in StreamErrors : StreamTransportFails(u)
    \/ \E u \in StreamHeads : StreamStarts(u)
    \/ \E chunk \in ReplyTexts : StreamChunk(chunk)
    \/ StreamEnds

Spec == Init /\ [][Next]_vars

(***************************************************************************)
(* Claims about clean_lm_response (SpecClean)                              *)
(***************************************************************************)
\* C6: the Response Cleaner is idempotent: cleaning the cleaner's own output
\* changes nothing, clean_lm_response(clean_lm_response(x)) = clean_lm_response(x).
CleanerIdempotent == cpc = "twice" => cz = cy

\* The cleaner as C7 states it: the trimmed text, less at most one leading
\* marker, then less at most one leading label; dropSpace says whether the
\* whitespace that follows a removed token goes with it.
DropLeading(t, token, dropSpace) ==
    IF MatchAt(t, 1, token)
    THEN From(t, IF dropSpace THEN SkipSpace(t, 1 + Len(token)) ELSE 1 + Len(token))
    ELSE t

DropLeadingLabel(t, labels, dropSpace) ==
    IF \E l \in labels : MatchAt(t, 1, l)
    THEN DropLeading(t, CHOOSE l \in labels : MatchAt(t, 1, l), dropSpace)
    ELSE t

LeadingFramingRemoved(x, labels, dropSpace) ==
    DropLeadingLabel(DropLeading(strip(x), Marker, dropSpace), labels, dropSpace)

StartOfTurn == SubSeq(Marker, 1, 12)
LabelSets == { {LabelHashes, LabelColon}, {LabelHashes, LabelColon, StartOfTurn} }

\* C7: the Response Cleaner only removes leading framing: its result is the
\* trimmed input less at most one leading start-of-turn marker and then at most
\* one leading assistant-prefix label; a text that begins with neither comes
\* back as the trimmed input.  (Every reading of the label set and of the
\* whitespace after a removed token is accepted.)
CleanerOnlyLeadingFraming ==
    cpc # "start" =>
        \E labels \in LabelSets, dropSpace \in BOOLEAN :
            cy = LeadingFramingRemoved(cx, labels, dropSpace)

(***************************************************************************)
(* Claims about convert_messages_to_prompt (SpecPrompt)                    *)
(***************************************************************************)
HasText(item) == item.kind = "dict" /\ "text" \in DOMAIN item.obj

\* the content of a message as C9 states it
StatedContent(m) ==
    IF "content" \notin DOMAIN m THEN <<>>
    ELSE IF m["content"].kind = "str" THEN m["content"].val
    ELSE LET kept == SelectSeq(m["content"].val, HasText)
             RECURSIVE Joined(_)
             Joined(n) == IF n = 0 THEN <<>>
                          ELSE IF n = 1 THEN kept[1].obj["text"]
                          ELSE Joined(n - 1) \o <<"\n">> \o kept[n].obj["text"]
         IN  Joined(Len(kept))

\* the line of a message as C9 states it: "<ROLE in upper case>: <content>"
StatedLine(m) ==
    LET role == IF "role" \in DOMAIN m THEN m["role"] ELSE <<"u","s","e","r">>
    IN  [i \in 1..Len(role) |-> Upper(role[i])] \o <<":", " ">> \o StatedContent(m)

RECURSIVE StatedLines(_, _)
StatedLines(ms, n) ==
    IF n = 0 THEN <<>>
    ELSE IF n = 1 THEN StatedLine(ms[1])
    ELSE StatedLines(ms, n - 1) \o <<"\n">> \o StatedLine(ms[n])

\* C9: the Prompt Compiler yields, for every message list, the trimmed
\* concatenation in message order of one line "<ROLE>: <content>" per message,
\* separated by newlines; role defaults to "user", a string content is verbatim,
\* a list content is the newline-joined texts of its fragments that have a text
\* field; every input gets a result.
PromptAsStated ==
    ppc = "done" => prompt = strip(StatedLines(msgs, Len(msgs)))

\* C9 witness: two messages compiled, the first without a role and with a
\* structured content that has a fragment lacking a text field.
PromptWitness ==
    /\ ppc = "done"
    /\ Len(msgs) = 2
    /\ DOMAIN msgs[1] = {"content"}
    /\ msgs[1]["content"].kind = "list"
    /\ Len(msgs[1]["content"].val) = 2
    /\ HasText(msgs[1]["content"].val[1])
    /\ ~HasText(msgs[1]["content"].val[2])
    /\ prompt = <<"U","S","E","R",":"," ","a","\n"," ","B","O","T",":"," ","h","i">>

(***************************************************************************)
(* Claims about the request handlers (Spec)                                *)
(***************************************************************************)
StartsWith(s, p) == Len(p) <= Len(s) /\ SubSeq(s, 1, Len(p)) = p
Contains(s, p) == \E i \in 1..(Len(s) - Len(p) + 1) : SubSeq(s, i, i + Len(p) - 1) = p

\* how the upstream call failed, read off the upstream's answer alone
FailedByStatus ==
    upstream.kind = "response" /\ ~(upstream.status_code >= 200 /\ upstream.status_code <= 299)
FailedByTimeout == upstream.kind = "timeout"
FailedByTransport == upstream.kind = "transport"
UpstreamFailed == FailedByStatus \/ FailedByTimeout \/ FailedByTransport
UpstreamSucceeded ==
    upstream.kind = "response" /\ upstream.status_code >= 200 /\ upstream.status_code <= 299

\* C1: a non-streaming request on either route ends, when the upstream answers
\* a non-2xx status s with body b, in a downstream error of status s whose
\* detail embeds b; when the upstream times out, in a 504; on any other
\* transport failure, in a 500 carrying the failure's description; and in none
\* of the three in a success body.
UnaryFailureMapped ==
    (pc = "done" /\ ~req.stream /\ UpstreamFailed) =>
        /\ body.kind = "error"
        /\ FailedByStatus =>
               status = upstream.status_code /\ Contains(body.detail, upstream.text)
        /\ FailedByTimeout => status = 504
        /\ FailedByTransport => status = 500 /\ Contains(body.detail, upstream.str)

\* C1 witness: a non-streaming chat request whose upstream call timed out.
UnaryFailureWitness ==
    /\ pc = "done" /\ req.route = "chat" /\ ~req.stream
    /\ FailedByTimeout
    /\ status = 504

\* C2: a streaming request whose upstream call fails (non-2xx status, timeout
\* or transport error) before the first chunk or after k chunks yields exactly
\* those k chunks and then exactly one chunk that begins with "ERROR: ", and
\* ends; the generator raises nothing and the downstream status stays 200.
StreamFailureEndsInErrorChunk ==
    (pc = "done" /\ req.stream /\ UpstreamFailed) =>
        /\ ~raised
        /\ status = 200
        /\ Len(out) = Len(upstreamChunks) + 1
        /\ SubSeq(out, 1, Len(upstreamChunks)) = upstreamChunks
        /\ StartsWith(out[Len(out)], <<"E","R","R","O","R",":"," ">>)

\* C3: a streaming request whose upstream call succeeds delivers exactly the
\* chunks received from the upstream, in arrival order, none dropped, doubled,
\* reordered or changed, and ends when the upstream stream ends.
StreamRelayedVerbatim ==
    (pc \in {"stream_body", "done"} /\ req.stream /\ UpstreamSucceeded) =>
        /\ out = upstreamChunks
        /\ ~raised
        /\ status = 200

\* C3 witness: a stream of two chunks, both of which the Response Cleaner
\* would change, has ended.
StreamRelayedWitness ==
    /\ pc = "done" /\ req.stream /\ UpstreamSucceeded
    /\ out = << <<"A","S","S","I","S","T","A","N","T",":"," ","y","o">>, <<" ","h","i">> >>

\* the upstream reply has every field the chat translation requires
ReplyComplete(json) ==
    /\ {"id", "created", "choices", "usage"} \subseteq DOMAIN json
    /\ \A i \in 1..Len(json["choices"]) :
           {"index", "text", "finish_reason"} \subseteq DOMAIN json["choices"][i]

\* C4: a non-streaming chat request whose upstream reply is 2xx gets a
\* chat-completion object only when the reply has every required field (id,
\* created, choices, usage, and index, text, finish_reason of each choice);
\* when one is missing the handler fails with a 500 and returns no object.
ChatReplyStrict ==
    (pc = "done" /\ req.route = "chat" /\ ~req.stream /\ UpstreamSucceeded) =>
        IF ReplyComplete(upstream.json)
        THEN status = 200 /\ body.kind = "json"
        ELSE status = 500 /\ body.kind # "json"

\* C4 witness: the reply lacks only its usage field and the handler answered 500.
ChatReplyWitness ==
    /\ pc = "done" /\ req.route = "chat" /\ ~req.stream /\ UpstreamSucceeded
    /\ DOMAIN upstream.json = {"id", "created", "choices"}
    /\ Len(upstream.json["choices"]) = 1
    /\ DOMAIN upstream.json["choices"][1] = {"index", "text", "finish_reason"}
    /\ status = 500

\* the text of the first choice, or the empty text when there is none
FirstChoiceText(json) ==
    IF "choices" \notin DOMAIN json THEN <<>>
    ELSE IF json["choices"] = <<>> THEN <<>>
    ELSE IF "text" \notin DOMAIN json["choices"][1] THEN <<>>
    ELSE json["choices"][1]["text"]

\* C5: a non-streaming simple-completion request whose upstream reply is a 2xx
\* JSON object never fails: it gets {model, created_at, response, done} with
\* done true, created_at the reply's created field or "" when absent, response
\* the first choice's text or "" when no choice is there (choices absent, an
\* empty list, or a first choice without text).
GenerateReplyLenient ==
    (pc = "done" /\ req.route = "generate" /\ ~req.stream /\ UpstreamSucceeded) =>
        /\ status = 200
        /\ body.kind = "json"
        /\ body.obj.done = TRUE
        /\ body.obj.created_at =
               (IF "created" \in DOMAIN upstream.json THEN upstream.json["created"] ELSE "")
        /\ body.obj.response = FirstChoiceText(upstream.json)

\* the model name C8 states for a request
StatedModel(r) ==
    IF r.route = "chat" /\ r.model = "qwen2.5"
    THEN "qwen2.5-coder-32b-instruct-mlx"
    ELSE r.model

\* C8: on the chat route the upstream payload's model is the alias-table value
\* of the caller's model when the table has one and the caller's model
\* otherwise, and the non-streaming response's model is that name; on the
\* simple-completion route both are the caller's model exactly, also when it
\* is a key of the alias table.
ModelNameByRoute ==
    pc # "idle" =>
        /\ payload.model = StatedModel(req)
        /\ (pc = "done" /\ body.kind = "json") => body.obj.model = StatedModel(req)

\* C8 witness: a simple-completion request for "qwen2.5", a key of the alias
\* table, has been answered.
ModelNameWitness ==
    /\ pc = "done" /\ req.route = "generate" /\ req.model = "qwen2.5"
    /\ body.kind = "json"
    /\ payload.model = "qwen2.5"
    /\ body.obj.model = "qwen2.5"

\* the request's outcome is the failure: an error answer, or a stream that
\* ends in an error chunk or by the generator's exception
FailureSurfaced ==
    IF req.stream
    THEN raised \/ (out # <<>> /\ StartsWith(out[Len(out)], <<"E","R","R","O","R",":"," ">>))
    ELSE ~(status >= 200 /\ status <= 299) /\ body.kind # "json"

====
